---- MODULE Spec2Model ----
(***************************************************************************)
(* Narrative Directions (mapping-prose-app).                               *)
(*                                                                         *)
(* A model of the form controller of src/src/App.jsx (the variant with the *)
(* self-parking override, lines 1-451), of the coordinate parser it uses   *)
(* and of the narrative backend of src/server.js.                          *)
(*                                                                         *)
(* Text is a sequence of one-character strings, so that trimming and the   *)
(* regular expressions of the parser are computed, not assumed.  Numbers   *)
(* are fixed-point integers in ten-thousandths of a degree.                *)
(***************************************************************************)
EXTENDS Integers, Sequences, FiniteSets, TLC

VARIABLES
    \* ---- App state (useState hooks of App.jsx) ----
    origin, destination, originGeocoding, selfParkingOverride,
    effectiveDestination, prose, isGenerating, error, copied,
    \* ---- environment of the page ----
    token,            \* MAPBOX_TOKEN is configured
    originLookups,    \* default-origin geocoding calls in flight
    copyTimers,       \* pending setTimeout(() => setCopied(false), 2000)
    clipboard,        \* what the last successful copy placed on the clipboard
    copyTried,        \* the strategies the last handleCopy ran, with their outcomes
    \* ---- handleGenerate: position and closure of the attempt in flight ----
    pc, reply, genOrigin, genOverride, routingDestination,
    directions, maneuvers,
    calls,            \* the network calls the attempt in flight has issued
    \* ---- parseCoordsFromInput applied to one pasted text ----
    pInput, pDone, pResult,
    \* ---- one POST /api/generate-prose served by server.js ----
    sBody, sKey, sUpstream, sDone, sRes,
    \* ---- the AddressSearch instance of the destination field ----
    inputValue, suggestions, isOpen, isLoading,
    timer,            \* the debounce timer of the suggestions effect
    queries           \* the suggestion queries issued, in order, with their fate

appVars    == <<origin, destination, originGeocoding, selfParkingOverride,
                effectiveDestination, prose, isGenerating, error, copied>>
envVars    == <<token, originLookups, copyTimers, clipboard, copyTried>>
genVars    == <<pc, reply, genOrigin, genOverride, routingDestination,
                directions, maneuvers, calls>>
parserVars == <<pInput, pDone, pResult>>
serverVars == <<sBody, sKey, sUpstream, sDone, sRes>>
fieldVars  == <<inputValue, suggestions, isOpen, isLoading, timer, queries>>
vars       == <<appVars, envVars, genVars, parserVars, serverVars, fieldVars>>

----------------------------------------------------------------------------
(* Text helpers                                                             *)

Digits == {"0", "1", "2", "3", "4", "5", "6", "7", "8", "9"}

IsDigit(c) == c \in Digits

\* \s of the regular expressions and of String.prototype.trim
IsSpace(c) == c \in {" ", "\t", "\n"}

DigitVal(c) ==
    CASE c = "0" -> 0 [] c = "1" -> 1 [] c = "2" -> 2 [] c = "3" -> 3
      [] c = "4" -> 4 [] c = "5" -> 5 [] c = "6" -> 6 [] c = "7" -> 7
      [] c = "8" -> 8 [] c = "9" -> 9

\* the first position >= i of s that holds no digit (Len(s)+1 when none): \d*
SkipDigits(s, i) ==
    CHOOSE j \in i..(Len(s) + 1) :
        /\ \A k \in i..(j - 1) : IsDigit(s[k])
        /\ (j = Len(s) + 1 \/ ~IsDigit(s[j]))

\* the first position >= i of s that holds no white space: \s*
SkipSpaces(s, i) ==
    CHOOSE j \in i..(Len(s) + 1) :
        /\ \A k \in i..(j - 1) : IsSpace(s[k])
        /\ (j = Len(s) + 1 \/ ~IsSpace(s[j]))

\* String.prototype.trim
Trim(s) ==
    LET first == SkipSpaces(s, 1)
        keep  == {j \in first..Len(s) : ~IsSpace(s[j])}
    IN  IF first > Len(s) THEN <<>>
        ELSE SubSeq(s, first, CHOOSE j \in keep : \A k \in keep : k <= j)

\* s holds the literal lit at position i
LitAt(s, i, lit) ==
    /\ i + Len(lit) - 1 <= Len(s)
    /\ SubSeq(s, i, i + Len(lit) - 1) = lit

----------------------------------------------------------------------------
(* parseCoordsFromInput, App.jsx 12-37                                      *)

\* a || b on match results and coordinate pairs, where <<>> stands for null
OrElse(a, b) == IF a # <<>> THEN a ELSE b

\* \.?\d* after the digits that end before p2: the position after the match
Fraction(s, p2) ==
    SkipDigits(s, IF p2 <= Len(s) /\ s[p2] = "." THEN p2 + 1 ELSE p2)

\* \d+\.?\d* at position p1: at least one digit, 0 when there is none
Unsigned(s, p1, p2) == IF p2 = p1 THEN 0 ELSE Fraction(s, p2)

\* (-?\d+\.?\d*) tried at position i: the position after the match, 0 when
\* it does not match.  The match is greedy, and since every pattern follows
\* the group by a comma, white space or the end of the text, no shorter match
\* of the group can make the rest of a pattern succeed.
MatchNumber(s, i) ==
    IF i > Len(s) THEN 0
    ELSE IF s[i] = "-" THEN Unsigned(s, i + 1, SkipDigits(s, i + 1))
    ELSE Unsigned(s, i, SkipDigits(s, i))

\* the two captured groups and the position after the second one, which
\* ends before e2; <<>> when the second group did not match
Groups(s, i, e1, s2, e2) ==
    IF e2 = 0 THEN <<>>
    ELSE <<SubSeq(s, i, e1 - 1), SubSeq(s, s2, e2 - 1), e2>>

\* the comma is expected at position c, the second group at position s2
CommaThenNumber(s, i, e1, c, s2) ==
    IF c > Len(s) \/ s[c] # "," THEN <<>>
    ELSE Groups(s, i, e1, s2, MatchNumber(s, s2))

\* the first group ended before e1 (0: it did not match); ws tells whether
\* the pattern allows \s* around the comma
AfterNumber(s, i, e1, ws) ==
    IF e1 = 0 THEN <<>>
    ELSE IF ws
    THEN CommaThenNumber(s, i, e1, SkipSpaces(s, e1),
                         SkipSpaces(s, SkipSpaces(s, e1) + 1))
    ELSE CommaThenNumber(s, i, e1, e1, e1 + 1)

\* number , number starting at position i: the two captured groups, or <<>>
MatchPair(s, i, ws) == AfterNumber(s, i, MatchNumber(s, i), ws)

\* /@(-?\d+\.?\d*),(-?\d+\.?\d*)/ tried at position i
AtPatternAt(s, i) ==
    IF s[i] = "@" THEN MatchPair(s, i + 1, FALSE) ELSE <<>>

\* /\/dir\/\/\s*(-?\d+\.?\d*)\s*,\s*(-?\d+\.?\d*)/ tried at position i
DirPatternAt(s, i) ==
    IF LitAt(s, i, <<"/", "d", "i", "r", "/", "/">>)
    THEN MatchPair(s, SkipSpaces(s, i + 6), TRUE)
    ELSE <<>>

\* /[?&](?:q|query)=(-?\d+\.?\d*)\s*,\s*(-?\d+\.?\d*)/ tried at position i
QueryPatternAt(s, i) ==
    IF s[i] \notin {"?", "&"} THEN <<>>
    ELSE IF LitAt(s, i + 1, <<"q", "=">>)
            \/ LitAt(s, i + 1, <<"q", "u", "e", "r", "y", "=">>)
    THEN MatchPair(s, IF LitAt(s, i + 1, <<"q", "=">>) THEN i + 3 ELSE i + 7,
                   TRUE)
    ELSE <<>>

\* String.prototype.match without the g flag: of the attempts <<i, result>>
\* at every position i, the result of the leftmost that matched
Leftmost(attempts) ==
    IF \A t \in attempts : t[2] = <<>> THEN <<>>
    ELSE (CHOOSE t \in attempts :
            /\ t[2] # <<>>
            /\ \A u \in attempts : u[2] # <<>> => t[1] <= u[1])[2]

AtMatch(s) == Leftmost({<<i, AtPatternAt(s, i)>> : i \in 1..Len(s)})

DirMatch(s) == Leftmost({<<i, DirPatternAt(s, i)>> : i \in 1..Len(s)})

QueryMatch(s) == Leftmost({<<i, QueryPatternAt(s, i)>> : i \in 1..Len(s)})

\* googleMatch, line 16-18: the first of the three patterns that matches
GoogleMatch(s) == OrElse(AtMatch(s), OrElse(DirMatch(s), QueryMatch(s)))

\* the $ of line 27: only white space follows the pair m
Anchored(s, m) ==
    IF m # <<>> /\ SkipSpaces(s, m[3]) = Len(s) + 1 THEN m ELSE <<>>

\* twoNumbers, line 27: /^(-?\d+\.?\d*)\s*[,]\s*(-?\d+\.?\d*)\s*$/
TwoNumbers(s) == Anchored(s, MatchPair(s, 1, TRUE))

RECURSIVE IntOf(_)
IntOf(ds) ==
    IF ds = <<>> THEN 0
    ELSE 10 * IntOf(SubSeq(ds, 1, Len(ds) - 1)) + DigitVal(ds[Len(ds)])

\* the digits u with the decimal point at position dot (Len(u)+1 when it
\* has none), in ten-thousandths: the texts of the model carry at most four
\* decimals
FixedPoint(u, dot) ==
    IntOf(SubSeq(u, 1, dot - 1)) * 10000
      + IntOf(SubSeq(SubSeq(u, dot + 1, Len(u)) \o <<"0", "0", "0", "0">>, 1, 4))

\* parseFloat of a captured group
ParseFloat(t) ==
    IF t[1] = "-" THEN 0 - FixedPoint(Tail(t), SkipDigits(Tail(t), 1))
    ELSE FixedPoint(t, SkipDigits(t, 1))

Abs(x) == IF x < 0 THEN 0 - x ELSE x

FitsLat(x) == Abs(x) <= 900000

FitsLng(x) == Abs(x) <= 1800000

\* line 24 / 33: [lng, lat] when both are in range, else fall through
InRange(lat, lng) ==
    IF FitsLat(lat) /\ FitsLng(lng) THEN <<lng, lat>> ELSE <<>>

\* lines 20-24 and 29-33: lat and lng from the two captured numbers
PickLatLng(a, b) ==
    InRange(IF FitsLat(a) THEN a ELSE b, IF FitsLng(b) THEN b ELSE a)

FromMatch(m) ==
    IF m = <<>> THEN <<>> ELSE PickLatLng(ParseFloat(m[1]), ParseFloat(m[2]))

\* lines 14-36 on the trimmed text s
ParseTrimmed(s) ==
    IF s = <<>> THEN <<>>
    ELSE OrElse(FromMatch(GoogleMatch(s)), FromMatch(TwoNumbers(s)))

\* parseCoordsFromInput: [lng, lat], or <<>> for null
parseCoordsFromInput(input) == ParseTrimmed(Trim(input))

\* the two numbers of a match, <<>> for no match
Floats(m) ==
    IF m = <<>> THEN <<>> ELSE <<ParseFloat(m[1]), ParseFloat(m[2])>>

\* the two numbers the parser captures from the trimmed text s (a text that
\* starts with a number matches no map-link pattern, so at most one of the
\* two matches)
CapturedFrom(s) ==
    IF s = <<>> THEN <<>> ELSE Floats(OrElse(GoogleMatch(s), TwoNumbers(s)))

\* the two numbers the parser captures from a text, <<>> when no pattern
\* matches
Captured(input) == CapturedFrom(Trim(input))

----------------------------------------------------------------------------
(* Texts a user can paste into the self-parking field                       *)

NumberTexts ==
    { <<"4", "5">>, <<"5", "0">>, <<"9", "0">>, <<"9", "0", ".", "5">>,
      <<"1", "0", "0">>, <<"1", "8", "0">>, <<"1", "8", "1">>,
      <<"2", "0", "0">>, <<"-", "9", "1">>, <<"4", "5", ".">>,
      <<"2", "8", ".", "5", "4", "2", "1">>,
      <<"-", "8", "1", ".", "3", "7", "9", "0">> }

PrefixTexts ==
    { <<>>, <<" ">>, <<"@">>, <<"m", "@">>, <<"/", "d", "i", "r", "/", "/">>,
      <<"?", "q", "=">>, <<"&", "q", "u", "e", "r", "y", "=">>, <<"x">> }

SeparatorTexts == { <<",">>, <<",", " ">>, <<" ", ",">>, <<";">> }

SuffixTexts == { <<>>, <<" ">>, <<",", "1", "5", "z">> }

PastedTexts ==
    { p \o a \o c \o b \o z :
        p \in PrefixTexts, a \in NumberTexts, c \in SeparatorTexts,
        b \in NumberTexts, z \in SuffixTexts }

ParserInit ==
    /\ pInput \in PastedTexts
    /\ pDone = FALSE
    /\ pResult = <<>>

ParserQuiet ==
    /\ pInput = <<>>
    /\ pDone = FALSE
    /\ pResult = <<>>

\* the pasted text is handed to parseCoordsFromInput
ParseInput ==
    /\ ~pDone
    /\ pDone' = TRUE
    /\ pResult' = parseCoordsFromInput(pInput)
    /\ UNCHANGED <<pInput, appVars, envVars, genVars, serverVars, fieldVars>>

----------------------------------------------------------------------------
(* The narrative backend, server.js 17-56                                   *)

\* JavaScript values a request body can hold under the key maneuvers
Undefined == [t |-> "undefined", v |-> <<>>]

JsNull == [t |-> "null", v |-> <<>>]

JsNumber(n) == [t |-> "number", v |-> <<n>>]

JsString(chars) == [t |-> "string", v |-> chars]

JsObject == [t |-> "object", v |-> <<>>]

JsArray(items) == [t |-> "array", v |-> items]

\* !x is false
Truthy(x) ==
    CASE x.t = "undefined" -> FALSE
      [] x.t = "null"      -> FALSE
      [] x.t = "number"    -> x.v # <<0>>
      [] x.t = "string"    -> x.v # <<>>
      [] OTHER             -> TRUE

\* what openai.chat.completions.create does: it resolves with a completion
\* whose first choice carries content (<<>> also stands for a missing
\* choice, message or content: ?. makes them all undefined), or it throws
Completion(content) == [kind |-> "completion", content |-> content, message |-> ""]

UpstreamThrows(message) == [kind |-> "throws", content |-> <<>>, message |-> message]

Upstreams ==
    { Completion(<<" ", "G", "o", " ", "n", "o", "r", "t", "h", ".", "\n">>),
      Completion(<<" ", " ">>),
      Completion(<<>>),
      UpstreamThrows("429 Rate limit reached"),
      UpstreamThrows("") }

JsonResponse(status, err, text) ==
    [kind |-> "http", status |-> status, error |-> err, prose |-> text]

\* a handler that validates the body before it looks for the credential
GenerateProseValidatesFirst(m, key, up) ==
    IF ~Truthy(m) \/ m.t # "array" \/ Len(m.v) = 0
    THEN JsonResponse(400, "Maneuvers are required", <<>>)
    ELSE IF ~key
    THEN JsonResponse(500, "OPENAI_API_KEY is not configured", <<>>)
    ELSE IF up.kind = "throws"
    THEN JsonResponse(500, IF up.message # "" THEN up.message
                           ELSE "Failed to generate prose", <<>>)
    ELSE JsonResponse(200, "", Trim(up.content))

\* the handler of POST /api/generate-prose, lines 17-56, for a parsed body
\* whose maneuvers is m, the credential configured or not, and the upstream
\* behaving as up
GenerateProse(m, key, up) ==
    IF ~key
    THEN JsonResponse(500, "OPENAI_API_KEY is not configured", <<>>)
    ELSE IF ~Truthy(m) \/ m.t # "array" \/ Len(m.v) = 0
    THEN JsonResponse(400, "Maneuvers are required", <<>>)
    ELSE IF up.kind = "throws"
    THEN JsonResponse(500, IF up.message # "" THEN up.message
                           ELSE "Failed to generate prose", <<>>)
    ELSE JsonResponse(200, "", Trim(up.content))

RequestBodies ==
    { Undefined, JsNull, JsNumber(0), JsNumber(5), JsString(<<>>),
      JsString(<<"a">>), JsObject, JsArray(<<>>), JsArray(<<"a">>),
      JsArray(<<"a", "b">>), JsArray(<<"b", "a", "c">>) }

NoResponse == [kind |-> "none", status |-> 0, error |-> "", prose |-> <<>>]

ServerInit ==
    /\ sBody \in RequestBodies
    /\ sKey \in BOOLEAN
    /\ sUpstream \in Upstreams
    /\ sDone = FALSE
    /\ sRes = NoResponse

ServerQuiet ==
    /\ sBody = Undefined
    /\ sKey = FALSE
    /\ sUpstream = Completion(<<>>)
    /\ sDone = FALSE
    /\ sRes = NoResponse

\* the backend serves the request
ServePost ==
    /\ ~sDone
    /\ sDone' = TRUE
    /\ sRes' = GenerateProse(sBody, sKey, sUpstream)
    /\ UNCHANGED <<sBody, sKey, sUpstream, appVars, envVars, genVars, parserVars, fieldVars>>

----------------------------------------------------------------------------
(* Places and the geocoding provider, App.jsx 8, 39-66                      *)

\* A text that the code builds from pieces is the sequence of its pieces.
DEFAULT_ORIGIN == <<"55 W. Church St., Orlando, FL 32801">>

Null == [null |-> TRUE]

\* { label, coordinates }: coordinates is [lng, lat], <<>> when the place
\* has none
Place(label, coordinates) == [label |-> label, coordinates |-> coordinates]

\* p?.coordinates, <<>> for undefined
Coordinates(p) == IF p = Null THEN <<>> ELSE p.coordinates

\* p?.label || ''
Label(p) == IF p = Null THEN <<>> ELSE p.label

OriginCoords == <<-813790, 285421>>

GarageCoords == <<-813000, 285000>>

\* data.features?.[0] of a geocoding response: none, or a feature with the
\* fields geocodeAddress reads (name stands for name || address_line1)
NoFeature ==
    [found |-> FALSE, coordinates |-> <<>>, full_address |-> <<>>,
     name |-> <<>>, place_formatted |-> <<>>]

Feature(coordinates, full, name, place) ==
    [found |-> TRUE, coordinates |-> coordinates, full_address |-> full,
     name |-> name, place_formatted |-> place]

OriginAnswers ==
    { NoFeature,
      Feature(OriginCoords, <<"55 West Church Street, Orlando, Florida 32801">>,
              <<"55 West Church Street">>, <<"Orlando, Florida 32801">>) }

GarageAnswers ==
    { NoFeature,
      Feature(<<>>, <<"Church Street Garage, Orlando">>, <<>>, <<>>),
      Feature(GarageCoords, <<>>, <<"Church Street Garage">>, <<"Orlando">>),
      Feature(GarageCoords, <<>>, <<>>, <<>>) }

\* geocodeAddress, lines 49-66, once the provider answered with feature
geocodeAddress(address, feature) ==
    IF ~feature.found \/ feature.coordinates = <<>> THEN Null
    ELSE LET name  == feature.name
             place == feature.place_formatted
             label == IF feature.full_address # <<>> THEN feature.full_address
                      ELSE IF name # <<>> /\ place # <<>>
                           THEN name \o <<", ">> \o place
                      ELSE IF name # <<>> THEN name ELSE place
         IN  Place(IF label # <<>> THEN label ELSE address, feature.coordinates)

\* line 42-44: the place at pasted coordinates, Null when there are none
SelfParkingAt(coords) ==
    IF coords = <<>> THEN Null
    ELSE Place(<<"Self-parking (", ToString(coords[2]), ", ",
                 ToString(coords[1]), ")">>, coords)

\* resolveSelfParkingInput, lines 41-44: the place built from pasted
\* coordinates without a network call, Null when the text holds none
SelfParkingFromCoords(input) == SelfParkingAt(parseCoordsFromInput(input))

\* a resolution that always reports that nothing was found
SelfParkingFromGeocodeLost(input, feature) == Null

\* resolveSelfParkingInput, lines 45-46: the place from the geocoder's answer
SelfParkingFromGeocode(input, feature) ==
    LET result == geocodeAddress(Trim(input), feature)
    IN  IF result = Null THEN Null
        ELSE Place(IF result.label # <<>> THEN result.label
                   ELSE <<"Self-parking">>, result.coordinates)

\* suggestions the typeahead offers; AddressSearch.selectSuggestion hands
\* { label: address || name, coordinates } to onChange
OriginSuggestions ==
    { Place(<<"400 W Livingston St, Orlando">>, <<-813839, 285480>>) }

\* a labelled place, a place whose feature carries no name or address, and
\* a feature without geometry
DestinationSuggestions ==
    { Place(<<"Orlando International Airport">>, <<-813081, 284312>>),
      Place(<<>>, <<-815000, 283000>>),
      Place(<<"Lake Eola Park">>, <<>>) }

OverrideTexts ==
    { <<>>, <<" ">>,
      <<"2", "8", ".", "5", ",", " ", "-", "8", "1", ".", "3">>,
      <<" ", "G", "a", "r", "a", "g", "e">> }

----------------------------------------------------------------------------
(* The directions provider, App.jsx 68-92                                   *)

\* a step: maneuver present or not, instruction present or not
Step(inst) == [maneuver |-> TRUE, has |-> TRUE, instruction |-> inst]

StepWithoutInstruction == [maneuver |-> TRUE, has |-> FALSE, instruction |-> ""]

StepWithoutManeuver == [maneuver |-> FALSE, has |-> FALSE, instruction |-> ""]

Leg(steps) == [hasSteps |-> TRUE, steps |-> steps]

LegWithoutSteps == [hasSteps |-> FALSE, steps |-> <<>>]

Route(legs) == [hasLegs |-> TRUE, legs |-> legs]

RouteWithoutLegs == [hasLegs |-> FALSE, legs |-> <<>>]

Directions(routes) == [hasRoutes |-> TRUE, routes |-> routes]

DirectionsWithoutRoutes == [hasRoutes |-> FALSE, routes |-> <<>>]

DirectionsData ==
    { DirectionsWithoutRoutes,
      Directions(<<>>),
      Directions(<<RouteWithoutLegs>>),
      Directions(<<Route(<<>>)>>),
      Directions(<<Route(<<LegWithoutSteps>>)>>),
      Directions(<<Route(<<Leg(<<StepWithoutInstruction, StepWithoutManeuver,
                                 Step("")>>)>>)>>),
      Directions(<<Route(<<Leg(<<Step("a"), Step("b")>>)>>)>>),
      Directions(<<Route(<<Leg(<<Step("b"), Step("a")>>)>>)>>),
      Directions(<<Route(<<Leg(<<Step("a"), Step("b"), Step("c"), Step("d"),
                                 Step("e")>>)>>)>>),
      Directions(<<Route(<<Leg(<<Step("a"), StepWithoutInstruction, Step("b")>>),
                           LegWithoutSteps,
                           Leg(<<Step("c"), Step(""), StepWithoutManeuver,
                                 Step("a")>>)>>)>>),
      Directions(<<Route(<<Leg(<<Step("a")>>)>>),
                   Route(<<Leg(<<Step("b"), Step("c")>>)>>)>>) }

RECURSIVE PushStepsUntilGap(_, _)
\* a loop that stops at the first step without an instruction
PushStepsUntilGap(acc, steps) ==
    IF steps = <<>> THEN acc
    ELSE LET step == Head(steps)
             inst == IF step.maneuver /\ step.has THEN step.instruction ELSE ""
         IN  IF inst # "" THEN PushStepsUntilGap(Append(acc, inst), Tail(steps))
             ELSE acc

RECURSIVE PushSteps(_, _)
\* the inner loop of lines 86-89 over the steps not yet visited
PushSteps(acc, steps) ==
    IF steps = <<>> THEN acc
    ELSE LET step == Head(steps)
             inst == IF step.maneuver /\ step.has THEN step.instruction ELSE ""
         IN  PushSteps(IF inst # "" THEN Append(acc, inst) ELSE acc, Tail(steps))

RECURSIVE PushLegs(_, _)
\* the outer loop of lines 84-90 over the legs not yet visited
PushLegs(acc, legs) ==
    IF legs = <<>> THEN acc
    ELSE LET leg   == Head(legs)
             steps == IF leg.hasSteps THEN leg.steps ELSE <<>>
         IN  PushLegs(PushSteps(acc, steps), Tail(legs))

\* extractManeuvers, lines 79-92
extractManeuvers(data) ==
    IF ~data.hasRoutes \/ data.routes = <<>> THEN <<>>
    ELSE IF ~data.routes[1].hasLegs THEN <<>>
    ELSE PushLegs(<<>>, data.routes[1].legs)

----------------------------------------------------------------------------
(* The form controller, App.jsx 94-267                                      *)

MaxLookups == 1

NoError == ""

VALIDATION_ERROR ==
    "Please select both a starting point and destination from the suggestions."

NO_ROUTE_ERROR == "No route found between these locations."

NoReply == [kind |-> "none"]

NoClipboard == [kind |-> "none", text |-> <<>>]

\* an awaited call rejects, or reading its body throws: err.message
Throws(message) == [kind |-> "throws", message |-> message]

ThrowMessages == {"Failed to fetch", ""}

GeocodeReply(feature) == [kind |-> "geocode", feature |-> feature]

\* a directions response that is not ok, with the message of its body
\* ("" when the body has none or is no JSON)
RouteRefused(status, message) ==
    [kind |-> "directions", ok |-> FALSE, status |-> status,
     message |-> message, data |-> DirectionsWithoutRoutes]

RouteFound(data) ==
    [kind |-> "directions", ok |-> TRUE, status |-> 200, message |-> "",
     data |-> data]

\* `Directions API error: ${res.status}`, line 74
StatusError(status) ==
    CASE status = 401 -> "Directions API error: 401"
      [] status = 422 -> "Directions API error: 422"
      [] OTHER        -> "Directions API error: 500"

NoDirections == DirectionsWithoutRoutes

\* a call handleGenerate issues: the geocoding of the self-parking text,
\* the route fetch (of which the model keeps the target), the narrative POST
GeocodeCall == [kind |-> "geocode", to |-> <<>>]

RouteCall(from, to) == [kind |-> "directions", to |-> to]

NarrativeCall == [kind |-> "narrative", to |-> <<>>]

\* the state after App has mounted and its effect of lines 103-112 has run
AppInit(tok) ==
    /\ origin = Place(DEFAULT_ORIGIN, <<>>)
    /\ destination = Null
    /\ originGeocoding = tok
    /\ selfParkingOverride = <<>>
    /\ effectiveDestination = Null
    /\ prose = <<>>
    /\ isGenerating = FALSE
    /\ error = NoError
    /\ copied = FALSE
    /\ token = tok
    /\ originLookups = IF tok THEN 1 ELSE 0
    /\ copyTimers = 0
    /\ clipboard = NoClipboard
    /\ copyTried = <<>>
    /\ pc = "idle"
    /\ reply = NoReply
    /\ genOrigin = Null
    /\ genOverride = <<>>
    /\ routingDestination = Null
    /\ directions = NoDirections
    /\ maneuvers = <<>>
    /\ calls = <<>>

\* the default-origin geocoding of line 108 / 261 answers: the .then runs
OriginLookupAnswers ==
    /\ originLookups > 0
    /\ \E feature \in OriginAnswers :
         LET result == geocodeAddress(DEFAULT_ORIGIN, feature)
         IN  origin' = IF result # Null THEN result ELSE origin
    /\ originGeocoding' = FALSE
    /\ originLookups' = originLookups - 1
    /\ UNCHANGED <<destination, selfParkingOverride, effectiveDestination,
                   prose, isGenerating, error, copied, token,
                   copyTimers, clipboard, copyTried, genVars, parserVars,
                   serverVars, fieldVars>>

\* the same call rejects: no handler is attached, nothing runs
OriginLookupRejects ==
    /\ originLookups > 0
    /\ originLookups' = originLookups - 1
    /\ UNCHANGED <<appVars, token, copyTimers, clipboard, copyTried, genVars,
                   parserVars, serverVars, fieldVars>>

\* the confirmed prop of the origin field, line 303
OriginConfirmed == Coordinates(origin) # <<>> \/ originGeocoding

\* the confirmed prop of the destination field, line 317
DestinationConfirmed == Coordinates(destination) # <<>>

\* handleOriginChange, lines 118-122
handleOriginChange(value) ==
    /\ origin' = value
    /\ originGeocoding' = IF value = Null THEN FALSE ELSE originGeocoding
    /\ error' = NoError
    /\ UNCHANGED <<destination, selfParkingOverride, effectiveDestination,
                   prose, isGenerating, copied, envVars, genVars, parserVars,
                   serverVars>>

\* handleDestinationChange, lines 124-127
handleDestinationChange(value) ==
    /\ destination' = value
    /\ error' = NoError
    /\ UNCHANGED <<origin, originGeocoding, selfParkingOverride,
                   effectiveDestination, prose, isGenerating, copied, envVars,
                   genVars, parserVars, serverVars>>

\* the user picks a suggestion of the origin field; a confirmed field
\* offers none (AddressSearch.jsx 27-31), and none without a token (34)
SelectOrigin ==
    /\ token /\ ~OriginConfirmed
    /\ \E s \in OriginSuggestions : handleOriginChange(s)
    /\ UNCHANGED fieldVars

\* the user empties the origin field (AddressSearch.jsx 95)
ClearOrigin == handleOriginChange(Null) /\ UNCHANGED fieldVars

SelectDestination ==
    /\ token /\ ~DestinationConfirmed
    /\ \E s \in DestinationSuggestions : handleDestinationChange(s)
    /\ UNCHANGED fieldVars

ClearDestination == handleDestinationChange(Null) /\ UNCHANGED fieldVars

\* the self-parking field's onChange, line 329
EditSelfParking ==
    /\ \E v \in OverrideTexts \ {selfParkingOverride} : selfParkingOverride' = v
    /\ UNCHANGED <<origin, destination, originGeocoding, effectiveDestination,
                   prose, isGenerating, error, copied, envVars, genVars,
                   parserVars, serverVars, fieldVars>>

----------------------------------------------------------------------------
(* handleGenerate, App.jsx 129-169                                          *)

\* a guard that forgets the destination
ValidatedOriginOnly(o, d) == Coordinates(o) # <<>>

\* the guard of line 130, negated
Validated(o, d) == Coordinates(o) # <<>> /\ Coordinates(d) # <<>>

\* line 267: what enables the Generate button
canGenerate ==
    Coordinates(origin) # <<>> /\ Coordinates(destination) # <<>> /\ ~isGenerating

\* a check that never fires
NoManeuversUnchecked(list) == FALSE

\* line 151: maneuvers.length === 0
NoManeuvers(list) == Len(list) = 0

\* line 142: the override is resolved at all
OverrideUsed(text) == Trim(text) # <<>> /\ token

genLocals == <<genOrigin, genOverride, routingDestination, directions, maneuvers>>

\* a catch without the finally: the indicator is never cleared
CatchWithoutFinally(message) ==
    /\ error' = IF message # "" THEN message ELSE "Something went wrong."
    /\ pc' = "idle"
    /\ reply' = NoReply
    /\ genOrigin' = Null
    /\ genOverride' = <<>>
    /\ routingDestination' = Null
    /\ directions' = NoDirections
    /\ maneuvers' = <<>>
    /\ calls' = <<>>
    /\ UNCHANGED <<origin, destination, originGeocoding, selfParkingOverride,
                   effectiveDestination, prose, isGenerating, copied, envVars,
                   parserVars, serverVars, fieldVars>>

\* a catch that issues the failed call again, up to four calls in all,
\* before it gives up
CatchAndRetry(message) ==
    IF Len(calls) < 4
    THEN /\ reply' = NoReply
         /\ calls' = Append(calls, calls[Len(calls)])
         /\ UNCHANGED <<appVars, envVars, pc, genLocals, parserVars, serverVars, fieldVars>>
    ELSE /\ error' = IF message # "" THEN message ELSE "Something went wrong."
         /\ isGenerating' = FALSE
         /\ pc' = "idle"
         /\ reply' = NoReply
         /\ genOrigin' = Null
         /\ genOverride' = <<>>
         /\ routingDestination' = Null
         /\ directions' = NoDirections
         /\ maneuvers' = <<>>
         /\ calls' = <<>>
         /\ UNCHANGED <<origin, destination, originGeocoding,
                        selfParkingOverride, effectiveDestination, prose,
                        copied, envVars, parserVars, serverVars, fieldVars>>

\* the catch and finally of lines 164-168, and the end of the closure
CatchAndFinally(message) ==
    /\ error' = IF message # "" THEN message ELSE "Something went wrong."
    /\ isGenerating' = FALSE
    /\ pc' = "idle"
    /\ reply' = NoReply
    /\ genOrigin' = Null
    /\ genOverride' = <<>>
    /\ routingDestination' = Null
    /\ directions' = NoDirections
    /\ maneuvers' = <<>>
    /\ calls' = <<>>
    /\ UNCHANGED <<origin, destination, originGeocoding, selfParkingOverride,
                   effectiveDestination, prose, copied, envVars, parserVars,
                   serverVars, fieldVars>>

\* Generate is pressed.  The handler takes the values of the render it was
\* created in; it runs to its first await: the geocoding of the override
\* when that holds no coordinates, the route fetch otherwise.  While an
\* attempt is in flight the button is disabled (lines 267, 340).
HandleGenerate ==
    /\ ~isGenerating
    /\ IF ~Validated(origin, destination)
       THEN /\ error' = VALIDATION_ERROR
            /\ UNCHANGED <<origin, destination, originGeocoding,
                           selfParkingOverride, effectiveDestination, prose,
                           isGenerating, copied, genVars>>
       ELSE /\ isGenerating' = TRUE
            /\ error' = NoError
            /\ prose' = <<>>
            /\ genOrigin' = origin
            /\ genOverride' = Trim(selfParkingOverride)
            /\ reply' = NoReply
            /\ directions' = NoDirections
            /\ maneuvers' = <<>>
            /\ LET pasted == SelfParkingFromCoords(Trim(selfParkingOverride))
               IN  IF OverrideUsed(selfParkingOverride) /\ pasted = Null
                   THEN /\ routingDestination' = destination
                        /\ effectiveDestination' = Null
                        /\ calls' = <<GeocodeCall>>
                        /\ pc' = "resolveSelfParking"
                   ELSE LET target == IF OverrideUsed(selfParkingOverride)
                                      THEN pasted ELSE destination
                        IN  /\ routingDestination' = target
                            /\ effectiveDestination' = target
                            /\ calls' = <<RouteCall(Coordinates(origin),
                                                    Coordinates(target))>>
                            /\ pc' = "fetchRoute"
            /\ UNCHANGED <<origin, destination, originGeocoding,
                           selfParkingOverride, copied>>
    /\ UNCHANGED <<envVars, parserVars, serverVars, fieldVars>>

\* what the awaited call of the attempt can settle to
Replies ==
    CASE pc = "resolveSelfParking" ->
           {Throws(m) : m \in ThrowMessages}
             \cup {GeocodeReply(f) : f \in GarageAnswers}
      [] pc = "fetchRoute" ->
           {Throws(m) : m \in ThrowMessages}
             \cup {RouteRefused(422, "No route found"), RouteRefused(500, "")}
             \cup {RouteFound(d) : d \in DirectionsData}
      [] pc = "generateProse" ->
           {Throws(m) : m \in ThrowMessages}
             \cup {GenerateProse(JsArray(maneuvers), key, up) :
                     key \in BOOLEAN, up \in Upstreams}
      [] OTHER -> {}

\* the network call the attempt awaits returns or fails
CallSettles ==
    /\ pc # "idle"
    /\ reply = NoReply
    /\ \E r \in Replies : reply' = r
    /\ UNCHANGED <<appVars, envVars, pc, genLocals, calls, parserVars,
                   serverVars, fieldVars>>

\* lines 143-148: the geocoding of the override has settled
AfterSelfParking ==
    /\ pc = "resolveSelfParking"
    /\ reply # NoReply
    /\ IF reply.kind = "throws"
       THEN CatchAndFinally(reply.message)
       ELSE LET resolved == SelfParkingFromGeocode(genOverride, reply.feature)
                target   == IF resolved # Null THEN resolved
                            ELSE routingDestination
            IN  /\ routingDestination' = target
                /\ effectiveDestination' = target
                /\ calls' = Append(calls, RouteCall(Coordinates(genOrigin),
                                                    Coordinates(target)))
                /\ pc' = "fetchRoute"
                /\ reply' = NoReply
                /\ UNCHANGED <<origin, destination, originGeocoding,
                               selfParkingOverride, prose, isGenerating, error,
                               copied, envVars, genOrigin, genOverride,
                               directions, maneuvers, parserVars, serverVars, fieldVars>>

\* lines 148-159 with fetchRoute, 68-77: the route fetch has settled
AfterRoute ==
    /\ pc = "fetchRoute"
    /\ reply # NoReply
    /\ IF reply.kind = "throws"
       THEN CatchAndFinally(reply.message)
       ELSE IF ~reply.ok
       THEN CatchAndFinally(IF reply.message # "" THEN reply.message
                            ELSE StatusError(reply.status))
       ELSE IF NoManeuvers(extractManeuvers(reply.data))
       THEN CatchAndFinally(NO_ROUTE_ERROR)
       ELSE /\ directions' = reply.data
            /\ maneuvers' = extractManeuvers(reply.data)
            /\ calls' = Append(calls, NarrativeCall)
            /\ pc' = "generateProse"
            /\ reply' = NoReply
            /\ UNCHANGED <<appVars, envVars, genOrigin, genOverride,
                           routingDestination, parserVars, serverVars, fieldVars>>

\* lines 161-168: the narrative request has settled
AfterProse ==
    /\ pc = "generateProse"
    /\ reply # NoReply
    /\ IF reply.kind = "throws"
       THEN CatchAndFinally(reply.message)
       ELSE IF reply.status # 200
       THEN CatchAndFinally(IF reply.error # "" THEN reply.error
                            ELSE "Failed to generate narrative")
       ELSE /\ prose' = reply.prose
            /\ isGenerating' = FALSE
            /\ pc' = "idle"
            /\ reply' = NoReply
            /\ genOrigin' = Null
            /\ genOverride' = <<>>
            /\ routingDestination' = Null
            /\ directions' = NoDirections
            /\ maneuvers' = <<>>
            /\ calls' = <<>>
            /\ UNCHANGED <<origin, destination, originGeocoding,
                           selfParkingOverride, effectiveDestination, error,
                           copied, envVars, parserVars, serverVars, fieldVars>>

\* a reset that leaves the self-parking override in place
HandleResetKeepsOverride ==
    /\ prose # <<>>
    /\ originLookups < MaxLookups
    /\ destination' = Null
    /\ effectiveDestination' = Null
    /\ prose' = <<>>
    /\ error' = NoError
    /\ origin' = Place(DEFAULT_ORIGIN, <<>>)
    /\ originGeocoding' = TRUE
    /\ originLookups' = originLookups + 1
    /\ UNCHANGED <<selfParkingOverride, isGenerating, copied, token, copyTimers,
                   clipboard, copyTried, genVars, parserVars, serverVars, fieldVars>>

\* handleReset, lines 253-265; the Reset button is part of the narrative
\* panel, rendered while prose is not empty (line 362)
HandleReset ==
    /\ prose # <<>>
    /\ originLookups < MaxLookups
    /\ destination' = Null
    /\ selfParkingOverride' = <<>>
    /\ effectiveDestination' = Null
    /\ prose' = <<>>
    /\ error' = NoError
    /\ origin' = Place(DEFAULT_ORIGIN, <<>>)
    /\ originGeocoding' = TRUE
    /\ originLookups' = originLookups + 1
    /\ UNCHANGED <<isGenerating, copied, token, copyTimers, clipboard, copyTried,
                   genVars, parserVars, serverVars, fieldVars>>

----------------------------------------------------------------------------
(* Copying the narrative, App.jsx 171-251                                   *)

MaxTimers == 1

\* line 171
Effective ==
    IF effectiveDestination # Null THEN effectiveDestination ELSE destination

\* line 173
destinationAddress == Label(Effective)

\* encodeURIComponent of a label, kept as the call on its argument
EncodeURIComponent(text) == <<"encodeURIComponent(">> \o text \o <<")">>

\* template literal `${lat},${lng}` of lines 175 and 180
LatLngText(coords) == <<ToString(coords[2]), ",", ToString(coords[1])>>

\* lines 174-178
googleMapsUrl ==
    IF Coordinates(Effective) # <<>>
    THEN <<"https://www.google.com/maps/dir/?api=1&destination=">>
           \o LatLngText(Coordinates(Effective))
    ELSE IF destinationAddress # <<>>
    THEN <<"https://www.google.com/maps/dir/?api=1&destination=">>
           \o EncodeURIComponent(destinationAddress)
    ELSE <<>>

\* lines 179-183
appleMapsUrl ==
    IF Coordinates(Effective) # <<>>
    THEN <<"maps://?daddr=">> \o LatLngText(Coordinates(Effective))
    ELSE IF destinationAddress # <<>>
    THEN <<"maps://?daddr=">> \o EncodeURIComponent(destinationAddress)
    ELSE <<>>

RECURSIVE Join(_, _)
\* Array.prototype.join
Join(lines, sep) ==
    IF lines = <<>> THEN <<>>
    ELSE IF Len(lines) = 1 THEN lines[1]
    ELSE lines[1] \o <<sep>> \o Join(Tail(lines), sep)

\* a serialization of the narrative alone
getCopyTextProseOnly == prose

\* getCopyText, lines 185-194 (the pin emoji of the two link lines is
\* written (pin))
getCopyText ==
    LET lines == IF destinationAddress # <<>>
                 THEN << prose, <<>>,
                         <<"[(pin) Open in Google Maps]     ">> \o googleMapsUrl,
                         <<>>,
                         <<"[(pin) Open in Apple Maps]     ">> \o appleMapsUrl >>
                 ELSE << prose >>
    IN  Join(lines, "\n")

\* what a copy leaves on the clipboard: the rendered block of line 394, or
\* a plain text
RichBlock == [kind |-> "rich", text |-> <<>>]

PlainText(text) == [kind |-> "plain", text |-> text]

\* how the browser answers the three strategies of handleCopy:
\* rich: document.execCommand('copy') on the selected block returns true,
\*       returns false, throws, or the selection API is missing;
\* api:  navigator.clipboard.writeText resolves, rejects, or is missing;
\* area: document.execCommand('copy') on the textarea returns true or false,
\*       or throws
RichOutcomes == {"true", "false", "throws", "missing"}

ApiOutcomes == {"resolves", "rejects", "missing"}

AreaOutcomes == {"true", "false", "throws"}

\* lines 211-213, 230-232, 243-245
ShowCopied ==
    /\ copied' = TRUE
    /\ copyTimers' = copyTimers + 1
    /\ error' = NoError

\* one strategy of handleCopy and how the browser answered it
Tried(strategy, outcome) == [strategy |-> strategy, outcome |-> outcome]

\* the strategies handleCopy runs for the three answers of the browser: the
\* next one only when the one before did not end the handler
TriedFor(rich, api, area) ==
    IF rich = "true" THEN <<Tried("rich", rich)>>
    ELSE IF api = "resolves" THEN <<Tried("rich", rich), Tried("api", api)>>
    ELSE <<Tried("rich", rich), Tried("api", api), Tried("area", area)>>

\* handleCopy, lines 196-251; the Copy button is part of the narrative
\* panel (line 362).  The text is taken before the await of line 226 and
\* nothing is read after it.
HandleCopy ==
    /\ prose # <<>>
    /\ copyTimers < MaxTimers
    /\ \E rich \in RichOutcomes, api \in ApiOutcomes, area \in AreaOutcomes :
         /\ copyTried' = TriedFor(rich, api, area)
         /\ IF rich = "true"
            THEN ShowCopied /\ clipboard' = RichBlock
            ELSE IF api = "resolves"
            THEN ShowCopied /\ clipboard' = PlainText(getCopyText)
            ELSE IF area = "throws"
            THEN /\ error' = "Could not copy to clipboard."
                 /\ UNCHANGED <<copied, copyTimers, clipboard>>
            ELSE /\ ShowCopied
                 /\ clipboard' = IF area = "true" THEN PlainText(getCopyText)
                                 ELSE clipboard
    /\ UNCHANGED <<origin, destination, originGeocoding, selfParkingOverride,
                   effectiveDestination, prose, isGenerating, token,
                   originLookups, genVars, parserVars, serverVars, fieldVars>>

\* a timer of lines 212, 231, 244 fires
CopiedTimeout ==
    /\ copyTimers > 0
    /\ copied' = FALSE
    /\ copyTimers' = copyTimers - 1
    /\ UNCHANGED <<origin, destination, originGeocoding, selfParkingOverride,
                   effectiveDestination, prose, isGenerating, error, token,
                   originLookups, clipboard, copyTried, genVars, parserVars,
                   serverVars, fieldVars>>

----------------------------------------------------------------------------
(* The destination field, AddressSearch.jsx 5-96                            *)

MaxQueries == 2

NoTimer == [set |-> FALSE, q |-> <<>>]

\* setTimeout(.., 300) of line 33, with the inputValue its closure holds
Timer(q) == [set |-> TRUE, q |-> q]

\* a suggestion query: its text and its fate, "pending", "listed" (the
\* provider answered) or "failed" (fetch or res.json() threw)
Query(q, fate) == [q |-> q, fate |-> fate]

\* what the user can type into the field
TypedTexts ==
    { <<>>, <<"a", "b">>, <<"a", "b", "c">>, <<"a", "b", "d">> }

\* the suggestions of lines 46-69 for a query text, as the places
\* { label: address || name, coordinates } that selectSuggestion would hand
\* to onChange; the second one for "abc" is a feature without geometry
Found(q) ==
    IF q = <<"a", "b", "c">>
    THEN << Place(<<"a", "b", "c", " ", "S", "t">>, <<-813081, 284312>>),
            Place(<<"a", "b", "c", " ", "P", "k">>, <<>>) >>
    ELSE IF q = <<"a", "b", "d">>
    THEN << Place(<<"a", "b", "d", " ", "A", "v">>, <<-815000, 283000>>) >>
    ELSE <<>>

\* the list a settled query has set: lines 56-70, or line 72 on failure
Listed(query) == IF query.fate = "listed" THEN Found(query.q) ELSE <<>>

\* the field as mounted: empty, no suggestions, nothing scheduled
FieldQuiet ==
    /\ inputValue = <<>>
    /\ suggestions = <<>>
    /\ isOpen = FALSE
    /\ isLoading = FALSE
    /\ timer = NoTimer
    /\ queries = <<>>

\* line 27: the effect offers no suggestions for this text
NoSuggestionsFor(text, confirmed) ==
    confirmed \/ Trim(text) = <<>> \/ Len(text) < 3

\* the effect of lines 26-79 after inputValue or confirmed changed: its
\* cleanup clears the timer of the run before, then it either clears the
\* list or starts a new timer
SuggestionsEffect(text, confirmed) ==
    IF NoSuggestionsFor(text, confirmed)
    THEN /\ suggestions' = <<>>
         /\ isOpen' = FALSE
         /\ timer' = NoTimer
    ELSE /\ timer' = Timer(text)
         /\ UNCHANGED <<suggestions, isOpen>>

\* handleInputChange, lines 92-96, for the typed text v, with the effect
\* that follows the render
TypeDestination ==
    \E v \in TypedTexts \ {inputValue} :
        /\ inputValue' = v
        /\ IF Trim(v) = <<>>
           THEN handleDestinationChange(Null)
           ELSE UNCHANGED <<appVars, envVars, genVars, parserVars, serverVars>>
        /\ SuggestionsEffect(v, Trim(v) # <<>> /\ DestinationConfirmed)
        /\ UNCHANGED <<isLoading, queries>>

\* the debounce timer fires, lines 33-44: the query is issued
DebounceFires ==
    /\ timer.set
    /\ Len(queries) < MaxQueries
    /\ timer' = NoTimer
    /\ IF token
       THEN /\ isLoading' = TRUE
            /\ queries' = Append(queries, Query(timer.q, "pending"))
       ELSE UNCHANGED <<isLoading, queries>>
    /\ UNCHANGED <<inputValue, suggestions, isOpen, appVars, envVars, genVars,
                   parserVars, serverVars>>

\* a query issued earlier settles, lines 45-75: whatever the field holds by
\* then, its list is set and the loading mark cleared
QueryAnswers ==
    \E i \in 1..Len(queries), fate \in {"listed", "failed"} :
        /\ queries[i].fate = "pending"
        /\ queries' = [queries EXCEPT ![i] = Query(queries[i].q, fate)]
        /\ suggestions' = Listed(Query(queries[i].q, fate))
        /\ isOpen' = IF fate = "listed" THEN TRUE ELSE isOpen
        /\ isLoading' = FALSE
        /\ UNCHANGED <<inputValue, timer, appVars, envVars, genVars,
                       parserVars, serverVars>>

\* selectSuggestion, lines 81-90, on a suggestion of the open list, with
\* the effect that follows the render
SelectSuggestion ==
    /\ isOpen
    /\ \E k \in 1..Len(suggestions) :
         LET s == suggestions[k]
         IN  /\ inputValue' = s.label
             /\ handleDestinationChange(s)
             /\ IF NoSuggestionsFor(s.label, Coordinates(s) # <<>>)
                THEN timer' = NoTimer
                ELSE timer' = Timer(s.label)
    /\ suggestions' = <<>>
    /\ isOpen' = FALSE
    /\ UNCHANGED <<isLoading, queries>>

\* a click outside the field, lines 16-24
ClickOutside ==
    /\ isOpen
    /\ isOpen' = FALSE
    /\ UNCHANGED <<inputValue, suggestions, isLoading, timer, queries, appVars,
                   envVars, genVars, parserVars, serverVars>>

\* the field gets the focus, line 104
FocusInput ==
    /\ ~isOpen
    /\ Len(suggestions) > 0
    /\ isOpen' = TRUE
    /\ UNCHANGED <<inputValue, suggestions, isLoading, timer, queries, appVars,
                   envVars, genVars, parserVars, serverVars>>

Init ==
    \E tok \in BOOLEAN : AppInit(tok) /\ ParserQuiet /\ ServerQuiet /\ FieldQuiet

Next ==
    \/ OriginLookupAnswers
    \/ OriginLookupRejects
    \/ SelectOrigin
    \/ ClearOrigin
    \/ SelectDestination
    \/ ClearDestination
    \/ EditSelfParking
    \/ HandleGenerate
    \/ CallSettles
    \/ AfterSelfParking
    \/ AfterRoute
    \/ AfterProse
    \/ HandleReset

Spec == Init /\ [][Next]_vars

\* the attempts whose awaited calls all return or fail, and whose
\* continuations then run (the event loop runs a settled promise's reaction)
LiveSpec ==
    /\ Spec
    /\ WF_vars(CallSettles)
    /\ WF_vars(AfterSelfParking)
    /\ WF_vars(AfterRoute)
    /\ WF_vars(AfterProse)

\* the target handleGenerate routes to, lines 141-146, for destination d,
\* override text and the geocoder's answer
RoutingTarget(d, text, feature) ==
    LET pasted   == SelfParkingFromCoords(Trim(text))
        resolved == SelfParkingFromGeocode(Trim(text), feature)
    IN  IF ~(Trim(text) # <<>>) THEN d
        ELSE IF pasted # Null THEN pasted
        ELSE IF resolved # Null THEN resolved
        ELSE d

\* The narrative panel is displayed: an attempt from origin o to
\* destination d with the override text has just succeeded with narrative p.
NarrativeShown(o, d, text, feature, p) ==
    /\ origin = o
    /\ destination = d
    /\ originGeocoding = FALSE
    /\ selfParkingOverride = text
    /\ effectiveDestination = RoutingTarget(d, text, feature)
    /\ prose = p
    /\ isGenerating = FALSE
    /\ error = NoError
    /\ copied = FALSE
    /\ token = TRUE
    /\ originLookups = 0
    /\ copyTimers = 0
    /\ clipboard = NoClipboard
    /\ copyTried = <<>>
    /\ pc = "idle"
    /\ reply = NoReply
    /\ genOrigin = Null
    /\ genOverride = <<>>
    /\ routingDestination = Null
    /\ directions = NoDirections
    /\ maneuvers = <<>>
    /\ calls = <<>>

CopyInit ==
    /\ \E o \in OriginSuggestions
              \cup {geocodeAddress(DEFAULT_ORIGIN, f) : f \in OriginAnswers \ {NoFeature}},
          d \in {s \in DestinationSuggestions : Coordinates(s) # <<>>},
          text \in OverrideTexts,
          feature \in GarageAnswers,
          up \in {u \in Upstreams : u.kind = "completion" /\ Trim(u.content) # <<>>} :
         NarrativeShown(o, d, text, feature, Trim(up.content))
    /\ ParserQuiet
    /\ ServerQuiet
    /\ FieldQuiet

\* what the user does with a narrative on display
CopyNext ==
    \/ HandleCopy
    \/ CopiedTimeout
    \/ EditSelfParking
    \/ SelectDestination
    \/ ClearDestination
    \/ HandleReset

CopySpec == CopyInit /\ [][CopyNext]_vars

\* a text is pasted into the self-parking field of the mounted form
ParserStart == AppInit(TRUE) /\ ParserInit /\ ServerQuiet /\ FieldQuiet

ParserSpec == ParserStart /\ [][ParseInput]_vars

\* a request arrives at the backend
ServerStart == AppInit(TRUE) /\ ParserQuiet /\ ServerInit /\ FieldQuiet

ServerSpec == ServerStart /\ [][ServePost]_vars

\* the form with its default origin resolved, before the user touches it
OriginResolved ==
    /\ origin \in {geocodeAddress(DEFAULT_ORIGIN, f) : f \in OriginAnswers} \ {Null}
    /\ destination = Null
    /\ originGeocoding = FALSE
    /\ selfParkingOverride = <<>>
    /\ effectiveDestination = Null
    /\ prose = <<>>
    /\ isGenerating = FALSE
    /\ error = NoError
    /\ copied = FALSE
    /\ token = TRUE
    /\ originLookups = 0
    /\ copyTimers = 0
    /\ clipboard = NoClipboard
    /\ copyTried = <<>>
    /\ pc = "idle"
    /\ reply = NoReply
    /\ genOrigin = Null
    /\ genOverride = <<>>
    /\ routingDestination = Null
    /\ directions = NoDirections
    /\ maneuvers = <<>>
    /\ calls = <<>>

FieldInit == OriginResolved /\ ParserQuiet /\ ServerQuiet /\ FieldQuiet

\* the user works in the destination field and presses Generate
FieldNext ==
    \/ TypeDestination
    \/ DebounceFires
    \/ QueryAnswers
    \/ SelectSuggestion
    \/ ClickOutside
    \/ FocusInput
    \/ HandleGenerate
    \/ CallSettles
    \/ AfterRoute
    \/ AfterProse

FieldSpec == FieldInit /\ [][FieldNext]_vars

----------------------------------------------------------------------------
(* Properties                                                               *)

\* the kinds of the calls of a list
Kinds(list) == {list[i].kind : i \in 1..Len(list)}

\* C1: whenever Generate is pressed while the origin or the destination has
\* no coordinates, no network call is issued, the form does not enter the
\* generating state, and the validation error message is shown.
C1_GenerateBlocked ==
    [][ (HandleGenerate
          /\ (Coordinates(origin) = <<>> \/ Coordinates(destination) = <<>>))
        => /\ calls' = <<>>
           /\ pc' = "idle"
           /\ reply' = NoReply
           /\ ~isGenerating'
           /\ error' = VALIDATION_ERROR ]_vars

\* Generate was pressed with a resolved origin and no resolved destination
C1_Witness ==
    /\ error = VALIDATION_ERROR
    /\ Coordinates(origin) # <<>>
    /\ Coordinates(destination) = <<>>
    /\ pc = "idle"
    /\ ~isGenerating

\* a step carries an instruction: it has a maneuver with a non-empty
\* instruction text
Carries(step) == step.maneuver /\ step.has /\ step.instruction # ""

\* the steps of the first route, as <<leg index, step index>>
StepPositions(data) ==
    IF ~data.hasRoutes \/ data.routes = <<>> THEN {}
    ELSE LET legs == data.routes[1].legs
         IN  UNION {{<<l, k>> : k \in 1..Len(legs[l].steps)} : l \in 1..Len(legs)}

InstructionPositions(data) ==
    {p \in StepPositions(data) : Carries(data.routes[1].legs[p[1]].steps[p[2]])}

\* leg by leg, step by step
Precedes(p, q) == p[1] < q[1] \/ (p[1] = q[1] /\ p[2] < q[2])

\* C2: the maneuver list sent to the narrative backend is exactly the
\* sequence of instruction strings of the first route's steps, leg by leg and
\* step by step in their original order, steps without an instruction left
\* out, nothing added, dropped or reordered.
C2_ManeuversInOrder ==
    pc = "generateProse" =>
        LET at == InstructionPositions(directions)
        IN  /\ Len(maneuvers) = Cardinality(at)
            /\ \A p \in at :
                 maneuvers[Cardinality({q \in at : Precedes(q, p)}) + 1]
                   = directions.routes[1].legs[p[1]].steps[p[2]].instruction

\* the narrative request is out for a route of three legs with gaps
C2_Witness ==
    /\ pc = "generateProse"
    /\ Len(directions.routes[1].legs) = 3
    /\ maneuvers = <<"a", "b", "c", "a">>
    /\ calls[Len(calls)] = NarrativeCall

\* the continuation of the route fetch runs on a directions response that
\* is ok and holds no instruction
EmptyRouteHandled ==
    /\ pc = "fetchRoute"
    /\ reply # NoReply
    /\ reply' = NoReply
    /\ reply.kind = "directions"
    /\ reply.ok
    /\ InstructionPositions(reply.data) = {}

\* C3: when the directions call succeeds but yields an empty maneuver list,
\* the attempt ends in the error state with the message "No route found
\* between these locations." and no narrative request is issued during it.
C3_EmptyRouteIsError ==
    [][ EmptyRouteHandled
        => /\ pc' = "idle"
           /\ ~isGenerating'
           /\ error' = NO_ROUTE_ERROR
           /\ prose' = <<>>
           /\ "narrative" \notin Kinds(calls) \cup Kinds(calls') ]_vars

\* an attempt has ended on a route without instructions
C3_Witness ==
    /\ error = NO_ROUTE_ERROR
    /\ pc = "idle"
    /\ ~isGenerating
    /\ prose = <<>>

\* the continuation of the self-parking geocoding runs
SelfParkingHandled ==
    /\ pc = "resolveSelfParking"
    /\ reply # NoReply
    /\ reply' = NoReply

\* the geocoder's answer names a place with coordinates
Usable(feature) == feature.found /\ feature.coordinates # <<>>

\* the step issues the route fetch to the coordinates c, right after the
\* calls issued so far
RoutedTo(c) ==
    /\ pc' = "fetchRoute"
    /\ isGenerating'
    /\ Len(calls') = Len(calls) + 1
    /\ calls'[Len(calls')].kind = "directions"
    /\ calls'[Len(calls')].to = c
    /\ Coordinates(effectiveDestination') = c

\* an attempt starts with an override that holds coordinates
PastedStart ==
    /\ ~isGenerating
    /\ isGenerating'
    /\ parseCoordsFromInput(selfParkingOverride) # <<>>

\* C4 as claimed: the route is fetched to the resolved self-parking place
\* when the override resolves; when its resolution fails, the route is
\* fetched to the original destination and no error is shown.
C4_FallbackOnAnyFailure ==
    [][ /\ PastedStart => RoutedTo(parseCoordsFromInput(selfParkingOverride))
        /\ SelfParkingHandled =>
             IF reply.kind = "geocode" /\ Usable(reply.feature)
             THEN RoutedTo(reply.feature.coordinates) /\ error' = NoError
             ELSE RoutedTo(Coordinates(routingDestination)) /\ error' = NoError
      ]_vars

\* C4, amended: the route is fetched to the resolved self-parking place when
\* the override resolves; when the geocoder finds no usable place the route
\* is fetched to the original destination and no error is shown; when the
\* geocoding call throws, the attempt ends in error and no route is fetched.
C4_SelfParkingRouting ==
    [][ /\ PastedStart => RoutedTo(parseCoordsFromInput(selfParkingOverride))
        /\ SelfParkingHandled =>
             IF reply.kind = "geocode" /\ Usable(reply.feature)
             THEN RoutedTo(reply.feature.coordinates) /\ error' = NoError
             ELSE IF reply.kind = "geocode"
             THEN RoutedTo(Coordinates(routingDestination)) /\ error' = NoError
             ELSE /\ pc' = "idle"
                  /\ ~isGenerating'
                  /\ error' # NoError
                  /\ "directions" \notin Kinds(calls) \cup Kinds(calls')
      ]_vars

\* the geocoder found nothing and the route is being fetched to the
\* destination the user chose
C4_Witness ==
    /\ pc = "fetchRoute"
    /\ Len(calls) = 2
    /\ calls[1] = GeocodeCall
    /\ calls[2].to = Coordinates(routingDestination)
    /\ routingDestination \in DestinationSuggestions
    /\ effectiveDestination = routingDestination
    /\ error = NoError

\* C5: after Reset the destination, the self-parking override, the
\* narrative and the error are cleared, and the origin is the fixed default
\* address, unresolved, with its geocoding issued again; no attempt is in
\* flight that could undo it.
C5_ResetClears ==
    [][ HandleReset
        => /\ destination' = Null
           /\ selfParkingOverride' = <<>>
           /\ effectiveDestination' = Null
           /\ prose' = <<>>
           /\ error' = NoError
           /\ origin' = Place(DEFAULT_ORIGIN, <<>>)
           /\ originGeocoding'
           /\ originLookups' = originLookups + 1
           /\ pc' = "idle"
           /\ ~isGenerating' ]_vars

\* Reset can be pressed on a form that holds a narrative, an error, an
\* override and a destination
C5_Witness ==
    /\ prose # <<>>
    /\ error # NoError
    /\ Trim(selfParkingOverride) # <<>>
    /\ destination # Null
    /\ origin # Place(DEFAULT_ORIGIN, <<>>)
    /\ ENABLED HandleReset

\* some assignment of the two numbers to latitude and longitude is in range
Arrangeable(a, b) ==
    \/ (Abs(a) <= 900000 /\ Abs(b) <= 1800000)
    \/ (Abs(b) <= 900000 /\ Abs(a) <= 1800000)

\* C6: for a text matching one of the four patterns the parser returns a
\* pair with latitude in [-90, 90] and longitude in [-180, 180], or no match
\* when no arrangement of the two captured numbers satisfies both ranges
\* ("200, 50" yields no match).
C6_InRangeOrNoMatch ==
    (pDone /\ Captured(pInput) # <<>>) =>
        LET a == Captured(pInput)[1]
            b == Captured(pInput)[2]
        IN  /\ pResult # <<>> =>
                 /\ Abs(pResult[2]) <= 900000
                 /\ Abs(pResult[1]) <= 1800000
            /\ ~Arrangeable(a, b) => pResult = <<>>

\* maneuvers is missing, not a list, or empty
BadManeuvers(m) == m.t # "array" \/ m.v = <<>>

\* C7 as claimed: 400 with an error body when maneuvers is missing, not a
\* list or empty; 500 with an error body when the credential is unconfigured
\* or the upstream call fails; 200 with a prose string otherwise.
C7_StatusByCause ==
    sDone =>
        /\ BadManeuvers(sBody) => (sRes.status = 400 /\ sRes.error # "")
        /\ ~sKey => (sRes.status = 500 /\ sRes.error # "")
        /\ (sKey /\ ~BadManeuvers(sBody) /\ sUpstream.kind = "throws")
             => (sRes.status = 500 /\ sRes.error # "")
        /\ (sKey /\ ~BadManeuvers(sBody) /\ sUpstream.kind # "throws")
             => (sRes.status = 200 /\ sRes.error = "")

\* C7, amended: 500 with an error body when the credential is unconfigured,
\* whatever the body; with the credential configured, 400 with an error body
\* when maneuvers is missing, not a list or empty, 500 with an error body
\* when the upstream call fails, and 200 with the trimmed completion as the
\* prose string otherwise.
C7_CredentialFirst ==
    sDone =>
        /\ ~sKey => (sRes.status = 500 /\ sRes.error # "")
        /\ (sKey /\ BadManeuvers(sBody)) => (sRes.status = 400 /\ sRes.error # "")
        /\ (sKey /\ ~BadManeuvers(sBody) /\ sUpstream.kind = "throws")
             => (sRes.status = 500 /\ sRes.error # "")
        /\ (sKey /\ ~BadManeuvers(sBody) /\ sUpstream.kind # "throws")
             => /\ sRes.status = 200
                /\ sRes.error = ""
                /\ sRes.prose = Trim(sUpstream.content)

\* a request without a usable list reached a backend without credential
C7_Witness ==
    /\ sDone
    /\ ~sKey
    /\ BadManeuvers(sBody)
    /\ sRes.status = 500

\* the plain text a copy has left on the clipboard, with the narrative it
\* was taken from still on display
PlainCopy == prose # <<>> /\ clipboard.kind = "plain"

\* C8 as claimed: without the rich-copy path, the plain text placed on the
\* clipboard is exactly the prose string, nothing appended.
C8_PlainTextIsProse == PlainCopy => clipboard.text = prose

\* the two link lines getCopyText appends for a destination at coords
LinkLines(coords) ==
    << "\n", "\n", "[(pin) Open in Google Maps]     ",
       "https://www.google.com/maps/dir/?api=1&destination=",
       ToString(coords[2]), ",", ToString(coords[1]),
       "\n", "\n", "[(pin) Open in Apple Maps]     ",
       "maps://?daddr=", ToString(coords[2]), ",", ToString(coords[1]) >>

\* C8, amended: without the rich-copy path, the plain text placed on the
\* clipboard starts with the prose string; it is the prose string alone only
\* when the effective destination has no label, and otherwise the prose is
\* followed by a blank line and the Google Maps link line, a blank line and
\* the Apple Maps link line, both to the effective destination.
C8_PlainTextIsProseAndLinks ==
    PlainCopy =>
        LET text == clipboard.text
            rest == SubSeq(text, Len(prose) + 1, Len(text))
        IN  /\ Len(text) >= Len(prose)
            /\ SubSeq(text, 1, Len(prose)) = prose
            /\ effectiveDestination # Null
            /\ IF effectiveDestination.label = <<>>
               THEN rest = <<>>
               ELSE rest = LinkLines(effectiveDestination.coordinates)

\* a plain-text copy that carries the two link lines
C8_Witness ==
    /\ PlainCopy
    /\ Len(clipboard.text) > Len(prose)
    /\ copied

\* an attempt that passed validation ends
AttemptEnds == pc # "idle" /\ pc' = "idle"

\* the route fetch, the extraction and the narrative request all succeeded
AllSucceeded ==
    /\ pc = "generateProse"
    /\ reply.kind = "http"
    /\ reply.status = 200

\* the message of the failure the attempt ends on
FailureMessage ==
    CASE reply.kind = "throws" ->
           IF reply.message # "" THEN reply.message ELSE "Something went wrong."
      [] reply.kind = "directions" /\ ~reply.ok ->
           IF reply.message # "" THEN reply.message
           ELSE StatusError(reply.status)
      [] reply.kind = "directions" /\ reply.ok -> NO_ROUTE_ERROR
      [] reply.kind = "http" ->
           IF reply.error # "" THEN reply.error
           ELSE "Failed to generate narrative"
      [] OTHER -> NoError

\* C9: every attempt that passed validation ends in exactly one of two
\* states: result-ready, the backend's prose string displayed unchanged and
\* no error, when the route fetch, the extraction and the narrative request
\* all succeed; or error, the failure's message shown and no narrative
\* displayed, when any of them fails.
C9_ResultOrError ==
    [][ AttemptEnds
        => /\ ~isGenerating'
           /\ IF AllSucceeded
              THEN /\ prose' = reply.prose
                   /\ prose' # <<>>
                   /\ error' = NoError
              ELSE /\ error' = FailureMessage
                   /\ error' # NoError
                   /\ prose' = <<>> ]_vars

\* what the code does hold to: the narrative is the backend's string, which
\* may be empty, and then neither a narrative nor an error is on display
C9_ProseAsReturned ==
    [][ AttemptEnds
        => /\ ~isGenerating'
           /\ IF AllSucceeded
              THEN prose' = reply.prose /\ error' = NoError
              ELSE error' = FailureMessage /\ error' # NoError /\ prose' = <<>>
      ]_vars

\* C10: every attempt that entered the generating state leaves it: once
\* each awaited call has returned or failed the indicator is cleared,
\* whichever step failed, no call is awaited any more, and the button is
\* enabled again whenever both places are resolved.
C10_GeneratingClears ==
    /\ isGenerating ~> (~isGenerating /\ pc = "idle")
    /\ [](~isGenerating =>
            (canGenerate <=> (Coordinates(origin) # <<>>
                                /\ Coordinates(destination) # <<>>)))

\* an attempt has failed on a rejected call and the indicator is cleared
C10_Witness ==
    /\ ~isGenerating
    /\ pc = "idle"
    /\ error = "Failed to fetch"
    /\ canGenerate

\* C13: for every pair of captured numbers (a, b) for which the parser
\* returns a result, the result is (latitude a, longitude b) when the
\* magnitude of a fits latitude, and otherwise the swapped pair (latitude b,
\* longitude a): it is always made of both captured numbers.
C13_FirstIsLatElseSwapped ==
    (pDone /\ pResult # <<>>) =>
        LET a == Captured(pInput)[1]
            b == Captured(pInput)[2]
        IN  /\ Captured(pInput) # <<>>
            /\ IF FitsLat(a) THEN pResult = <<b, a>> ELSE pResult = <<a, b>>

\* the kinds of the calls of a list, in the order they were issued
KindsInOrder(list) == [i \in 1..Len(list) |-> list[i].kind]

\* the orders in which one attempt may issue its calls
Sequential ==
    { <<>>, <<"geocode">>, <<"directions">>, <<"geocode", "directions">>,
      <<"directions", "narrative">>,
      <<"geocode", "directions", "narrative">> }

\* the awaited call has returned what the next call needs: the self-parking
\* resolution has finished, or the route fetch has returned a list of
\* maneuvers that is not empty
Gates(r, kind) ==
    \/ kind = "directions" /\ r.kind = "geocode"
    \/ /\ kind = "narrative"
       /\ r.kind = "directions"
       /\ r.ok
       /\ InstructionPositions(r.data) # {}

\* C15: within one attempt the calls are sequential and never repeated: the
\* route fetch is issued only after the self-parking resolution has finished,
\* the narrative request only after the route fetch has returned a non-empty
\* maneuver list, each at most once per press of Generate; a call is awaited
\* only while the last one issued is outstanding, and after a failure no call
\* is issued until Generate is pressed again.
C15_SequentialCalls ==
    /\ [](/\ KindsInOrder(calls) \in Sequential
          /\ (pc = "idle" <=> calls = <<>>)
          /\ (pc = "idle" => reply = NoReply))
    /\ [][ calls' # calls =>
             \/ calls' = <<>> /\ pc' = "idle"
             \/ calls = <<>> /\ Len(calls') = 1 /\ HandleGenerate
             \/ /\ Len(calls') = Len(calls) + 1
                /\ SubSeq(calls', 1, Len(calls)) = calls
                /\ calls # <<>>
                /\ reply # NoReply
                /\ reply' = NoReply
                /\ Gates(reply, calls'[Len(calls')].kind) ]_vars

\* the three calls of an attempt have been issued, one after the other
C15_Witness ==
    /\ pc = "generateProse"
    /\ KindsInOrder(calls) = <<"geocode", "directions", "narrative">>
    /\ reply = NoReply

\* C17: once the user has selected an origin suggestion, the origin stays
\* that selection until the user clears or reselects the origin field or
\* presses Reset; a default-origin geocoding response that arrives later
\* does not replace it.
C17_SelectionKept ==
    [][ (origin \in OriginSuggestions /\ origin' # origin)
        => (ClearOrigin \/ SelectOrigin \/ HandleReset) ]_vars

\* a default-origin resolution issued on load or by Reset settles
LookupSettles == originLookups' < originLookups

\* C12: after load and after every Reset the form is resolving-origin, and
\* when the resolution settles, successfully or not, it returns to idle;
\* when it fails the origin keeps the form it had, and without a token the
\* form is never resolving-origin and the origin is never resolved.
C12_ResolvingOriginEnds ==
    /\ [](~token => (~originGeocoding /\ Coordinates(origin) = <<>>))
    /\ [][ HandleReset => originGeocoding' ]_vars
    /\ [][ LookupSettles =>
             /\ originLookups' = 0 => ~originGeocoding'
             /\ Coordinates(origin') = <<>> => origin' = origin ]_vars

\* the strategy placed the content on the clipboard
Succeeded(t) ==
    \/ t.strategy = "rich" /\ t.outcome = "true"
    \/ t.strategy = "api" /\ t.outcome = "resolves"
    \/ t.strategy = "area" /\ t.outcome = "true"

\* C14: the copy action tries rich-selection copy, the clipboard-write API
\* and the synthetic-field copy in that order and stops at the first that
\* succeeds, showing the Copied indicator and no error; when all three fail
\* it shows an error and does not show the Copied indicator.
C14_FirstSuccessOrError ==
    [][ HandleCopy =>
          LET log == copyTried'
          IN  /\ log # <<>>
              /\ [i \in 1..Len(log) |-> log[i].strategy]
                   = SubSeq(<<"rich", "api", "area">>, 1, Len(log))
              /\ \A i \in 1..(Len(log) - 1) : ~Succeeded(log[i])
              /\ IF Succeeded(log[Len(log)])
                 THEN copied' /\ error' = NoError
                 ELSE /\ Len(log) = 3
                      /\ error' = "Could not copy to clipboard."
                      /\ ~copied' ]_vars

\* C11: every edit of the destination field clears the error and leaves
\* its place without coordinates, so that Generate is blocked; only the
\* explicit selection of a suggestion gives the place coordinates again.
C11_EditInvalidates ==
    /\ [][ TypeDestination =>
             /\ error' = NoError
             /\ Coordinates(destination') = <<>>
             /\ ~canGenerate' ]_vars
    /\ [][ (destination' # destination /\ Coordinates(destination') # <<>>)
             => SelectSuggestion ]_vars

\* every suggestion query issued has settled
AllArrived == \A i \in 1..Len(queries) : queries[i].fate # "pending"

\* C16: a keystroke leaves no debounce timer but its own, and when the
\* response that was still missing arrives, the list of suggestions is the
\* one returned for the query issued last.
C16_LatestQueryShown ==
    /\ [][ TypeDestination =>
             (timer' = NoTimer \/ timer' = Timer(inputValue')) ]_vars
    /\ [][ (QueryAnswers /\ AllArrived') =>
             suggestions' = Listed(queries'[Len(queries')]) ]_vars

=============================================================================
